---------------------------- MODULE Spec2Model ----------------------------
(***************************************************************************)
(* Model of bskypromo_reposter.py: one scheduled invocation of main()      *)
(* (login, exclude list, cleanup_old_reposts, do_reposts, save_state).     *)
(*                                                                         *)
(* A behaviour of Spec is one invocation, started from one of the state    *)
(* files of InitStates; the clock reads Now0 during the whole invocation.  *)
(* Remote calls answer or raise, chosen in the action that makes the call. *)
(*                                                                         *)
(* Further specifications over the same variables:                         *)
(*   - FetchFair, ListSpec: fetch_feed_items and fetch_list_members call   *)
(*     by call, against a source that answers as it likes;                 *)
(*   - LookbackSpec: the candidate loop of do_reposts with HOURS_BACK = 0; *)
(*   - CrashSpec: the invocation with save_state in two steps and a crash  *)
(*     possible at every step;                                             *)
(*   - DeleteSpec: one call of delete_repost_record;                       *)
(*   - RetentionFair: invocations that repost nothing, repeated while the  *)
(*     clock advances.                                                     *)
(*                                                                         *)
(* Encodings                                                               *)
(*   - a uri / link string is the sequence of its "/"-separated parts,     *)
(*     None and "" are the empty sequence;                                 *)
(*   - a timestamp string is [kind, t]: kind "none" (absent or empty),     *)
(*     "bad" (not ISO), "naive" (ISO without offset), "aware" (ISO with    *)
(*     offset or Z); t counts hours;                                       *)
(*   - an Optional[datetime] is [ok, aware, t];                            *)
(*   - a missing string attribute is "".                                   *)
(***************************************************************************)
EXTENDS Integers, Sequences, FiniteSets, TLC

\* ------------------------------ configuration ----------------------------
\* environment-configured limits, set small
MAX_PER_RUN == 2
HOURS_BACK == 2
CLEANUP_DAYS == 1
FEED_MAX_ITEMS == 3
DUP_CHECK_CACHE == 2
API_PAGE_LIMIT == 100

\* bounds of the model
MaxFeedLen == 3

\* the clock (hours) at which the run takes place
Now0 == 100

ME == "did:me"

\* ------------------------------ UTILS -------------------------------------
NoneDt == [ok |-> FALSE, aware |-> FALSE, t |-> 0]

NoTs == [kind |-> "none", t |-> 0]
BadTs == [kind |-> "bad", t |-> 0]
Aware(t) == [kind |-> "aware", t |-> t]
Naive(t) == [kind |-> "naive", t |-> t]

\* parse_dt: None for an empty or unparsable value
parse_dt(val) ==
    IF val.kind \in {"none", "bad"}
    THEN NoneDt
    ELSE [ok |-> TRUE, aware |-> (val.kind = "aware"), t |-> val.t]

\* now_dt / now_iso at clock value n
now_dt(n) == [ok |-> TRUE, aware |-> TRUE, t |-> n]
now_iso(n) == Aware(n)

\* comparing an offset-naive with an offset-aware datetime raises TypeError
Comparable(a, b) == a.aware = b.aware

NoneUri == << >>
AtUri(did, coll, rkey) == <<"at:", "", did, coll, rkey>>
StartsWithAt(u) == Len(u) >= 3 /\ u[1] = "at:" /\ u[2] = ""


\* ------------------------------ links -------------------------------------
\* the handle lookup service: the did of a handle, "" when the handle is
\* unknown; a did needs no lookup
IsDid(actor) == actor \in {"did:me", "did:owner"}

\* resolve_handle_to_did; lookup is the outcome of the remote call
\* ("" for an exception or a result without did)
resolve_handle_to_did(actor, lookup) ==
    IF IsDid(actor) THEN actor ELSE lookup

\* LIST_URL_RE / FEED_URL_RE matched at the start of the link: kind is
\* "lists" or "feed"
UrlMatch(link, kind) ==
    /\ Len(link) >= 7
    /\ link[1] = "https:" /\ link[2] = "" /\ link[3] = "bsky.app"
    /\ link[4] = "profile" /\ link[5] # "" /\ link[6] = kind /\ link[7] # ""

NormalizeLink(link, kind, coll, lookup) ==
    IF link = NoneUri THEN NoneUri
    ELSE IF StartsWithAt(link) THEN link
    ELSE IF ~UrlMatch(link, kind) THEN NoneUri
    ELSE LET did == resolve_handle_to_did(link[5], lookup)
         IN  IF did = "" THEN NoneUri ELSE AtUri(did, coll, link[7])

normalize_list_uri(link, lookup) ==
    NormalizeLink(link, "lists", "app.bsky.graph.list", lookup)

normalize_feed_uri(link, lookup) ==
    NormalizeLink(link, "feed", "app.bsky.feed.generator", lookup)

\* lines 77-84 and 93-95, 106-108: the link names its owner by a handle and
\* resolve_handle fails, so the normalisation gives None
LookupFailed(link, kind, lookup) ==
    /\ UrlMatch(link, kind)
    /\ ~IsDid(link[5])
    /\ resolve_handle_to_did(link[5], lookup) = ""

\* the values the two link settings take
ListLinks ==
    { NoneUri,
      AtUri("did:owner", "app.bsky.graph.list", "l1"),
      <<"https:", "", "bsky.app", "profile", "did:owner", "lists", "l1">>,
      <<"https:", "", "bsky.app", "profile", "owner.test", "lists", "l1">>,
      <<"https:", "", "example.com", "lists">> }

FeedLinks ==
    { NoneUri,
      AtUri("did:owner", "app.bsky.feed.generator", "f1"),
      <<"https:", "", "bsky.app", "profile", "did:owner", "feed", "f1">>,
      <<"https:", "", "bsky.app", "profile", "owner.test", "feed", "f1">>,
      <<"https:", "", "bsky.app", "profile", "owner.test", "lists", "f1">> }

Lookups == {"", "did:owner"}

\* ------------------------------ has_media ---------------------------------
\* an embed: present, number of images, video, external link card,
\* recordWithMedia with its media's images and video
NoEmbed == [present |-> FALSE, images |-> 0, video |-> FALSE, external |-> FALSE,
            rwm |-> FALSE, media |-> FALSE, m_images |-> 0, m_video |-> FALSE]
ImagesEmbed(n) == [NoEmbed EXCEPT !.present = TRUE, !.images = n]
VideoEmbed == [NoEmbed EXCEPT !.present = TRUE, !.video = TRUE]
ExternalEmbed == [NoEmbed EXCEPT !.present = TRUE, !.external = TRUE]
RwmImagesEmbed(n) == [NoEmbed EXCEPT !.present = TRUE, !.rwm = TRUE, !.media = TRUE,
                                     !.m_images = n]

has_media(record) ==
    LET embed == record.embed
    IN  IF ~embed.present THEN FALSE
        ELSE IF embed.images > 0 THEN TRUE
        ELSE IF embed.video THEN TRUE
        ELSE IF embed.rwm /\ embed.media /\ (embed.m_images > 0 \/ embed.m_video) THEN TRUE
        ELSE FALSE

\* ------------------------------ posts -------------------------------------
NoRecord == [present |-> FALSE, createdAt |-> NoTs, embed |-> NoEmbed]
Record(createdAt, embed) == [present |-> TRUE, createdAt |-> createdAt, embed |-> embed]

\* a feed item; has_post is FALSE for an item without post
Item(uri, cid, author, record, indexedAt) ==
    [has_post |-> TRUE, uri |-> uri, cid |-> cid, author |-> author,
     record |-> record, indexedAt |-> indexedAt]
NoPostItem == [Item("", "", "", NoRecord, NoTs) EXCEPT !.has_post = FALSE]

\* robust_post_time: createdAt, else indexedAt, else the epoch
robust_post_time(post) ==
    LET record == post.record
        created == IF record.present THEN record.createdAt ELSE NoTs
        dt == IF created.kind # "none" THEN parse_dt(created) ELSE NoneDt
        indexed == post.indexedAt
        dt2 == IF indexed.kind # "none" THEN parse_dt(indexed) ELSE NoneDt
    IN  IF dt.ok THEN dt
        ELSE IF dt2.ok THEN dt2
        ELSE [ok |-> TRUE, aware |-> TRUE, t |-> 0]

\* the posts a feed page is drawn from
Fresh1 == Item("u1", "c1", "a1", Record(Aware(Now0), ImagesEmbed(1)), Aware(Now0))
Fresh2 == Item("u2", "c2", "a1", Record(Aware(Now0 - 1), VideoEmbed), NoTs)
Fresh3 == Item("u3", "c3", "a1", Record(BadTs, RwmImagesEmbed(2)), Aware(Now0))
AtCutoff == Item("u4", "c4", "a2", Record(Aware(Now0 - HOURS_BACK), ImagesEmbed(1)), NoTs)
NoCid == Item("u5", "", "a2", Record(Aware(Now0), ImagesEmbed(1)), NoTs)
Listed == Item("u6", "c6", "ax", Record(Aware(Now0), ImagesEmbed(1)), NoTs)
TooOld == Item("u7", "c7", "a2", Record(Aware(Now0 - HOURS_BACK - 1), VideoEmbed), Aware(Now0))
LinkOnly == Item("u8", "c8", "a2", Record(Aware(Now0), ExternalEmbed), NoTs)
NaiveTime == Item("u9", "c9", "a2", Record(Naive(Now0), ImagesEmbed(1)), NoTs)

PostPool == {Fresh1, Fresh2, Fresh3, AtCutoff, NoCid, Listed, TooOld, LinkOnly,
             NaiveTime, NoPostItem}

RECURSIVE SeqsUpTo(_, _)
SeqsUpTo(S, n) ==
    IF n = 0 THEN { << >> }
    ELSE LET shorter == SeqsUpTo(S, n - 1)
         IN  shorter \cup { Append(s, x) : s \in shorter, x \in S }

Feeds == SeqsUpTo(PostPool, MaxFeedLen)

\* ------------------------------ paged sources -----------------------------
Min(a, b) == IF a <= b THEN a ELSE b

Take(s, n) == SubSeq(s, 1, Min(n, Len(s)))

\* the response of a source to its k-th call: a source that is asked again
\* after its last page repeats that page
PageAt(pages, k) == pages[Min(k, Len(pages))]

\* line 187 without the cap of 100 items a call
BatchLimit_Uncapped(max_items, n) == max_items - n

\* line 187: batch_limit, with n items fetched so far
BatchLimit(max_items, n) == Min(API_PAGE_LIMIT, max_items - n)

\* fetch_feed_items: pages is the source, a non-empty sequence of
\* [feed, cursor]; k is the number of the next call
RECURSIVE FeedLoop(_, _, _, _)
FeedLoop(pages, max_items, items, k) ==
    IF Len(items) >= max_items THEN items
    ELSE LET batch_limit == BatchLimit(max_items, Len(items))
             out == PageAt(pages, k)
             batch == out.feed
             items2 == items \o batch
         IN  IF batch_limit <= 0 THEN items
             ELSE IF ~out.cursor \/ batch = << >> THEN items2
             ELSE FeedLoop(pages, max_items, items2, k + 1)

fetch_feed_items(pages, max_items) ==
    Take(FeedLoop(pages, max_items, << >>, 1), max_items)

\* the feed sources: a feed served as one page, or as a first page of one
\* item followed by a page with the rest
FeedSources ==
    { << [feed |-> f, cursor |-> FALSE] >> : f \in Feeds }
    \cup { << [feed |-> SubSeq(f, 1, 1), cursor |-> TRUE],
              [feed |-> SubSeq(f, 2, Len(f)), cursor |-> FALSE] >> :
           f \in { g \in Feeds : Len(g) >= 2 } }

\* fetch_list_members over a source whose last page carries no cursor:
\* pages is a sequence of [items, cursor], an item is the subject's did
\* ("" when the item has none)
RECURSIVE MembersOfBatch(_, _, _)
MembersOfBatch(batch, members, limit) ==
    IF batch = << >> THEN [members |-> members, full |-> FALSE]
    ELSE LET did == Head(batch)
             m2 == IF did # "" THEN Append(members, did) ELSE members
         IN  IF Len(m2) >= limit THEN [members |-> m2, full |-> TRUE]
             ELSE MembersOfBatch(Tail(batch), m2, limit)

RECURSIVE ListLoop(_, _, _, _)
ListLoop(pages, limit, members, k) ==
    LET out == PageAt(pages, k)
        r == MembersOfBatch(out.items, members, limit)
    IN  IF r.full THEN Take(r.members, limit)
        ELSE IF ~out.cursor THEN Take(r.members, limit)
        ELSE ListLoop(pages, limit, r.members, k + 1)

fetch_list_members(pages, limit) == ListLoop(pages, limit, << >>, 1)

LIST_MEMBER_LIMIT == 2

ListSources ==
    { << [items |-> << >>, cursor |-> FALSE] >>,
      << [items |-> <<"ax">>, cursor |-> FALSE] >>,
      << [items |-> <<"", "ax">>, cursor |-> TRUE],
         [items |-> <<"ax", "az">>, cursor |-> FALSE] >> }

Range(s) == { s[k] : k \in 1..Len(s) }

\* ------------------------------ CLEANUP -----------------------------------
REPOST_COLL == "app.bsky.feed.repost"

Entry(post_uri, post_cid, repost_uri, createdAt) ==
    [post_uri |-> post_uri, post_cid |-> post_cid, repost_uri |-> repost_uri,
     createdAt |-> createdAt]

\* delete_repost_record without the test of the uri's owner
delete_repost_record_NoOwnerCheck(repost_uri, remote_ok) ==
    IF repost_uri = NoneUri \/ ~StartsWithAt(repost_uri)
    THEN [ret |-> FALSE, called |-> FALSE]
    ELSE IF Len(repost_uri) < 5 THEN [ret |-> FALSE, called |-> FALSE]
    ELSE [ret |-> remote_ok, called |-> TRUE]

\* delete_repost_record reporting a raised delete call as a success
delete_repost_record_SwallowsError(repost_uri, remote_ok) ==
    IF repost_uri = NoneUri \/ ~StartsWithAt(repost_uri)
    THEN [ret |-> FALSE, called |-> FALSE]
    ELSE IF Len(repost_uri) < 5 THEN [ret |-> FALSE, called |-> FALSE]
    ELSE IF repost_uri[3] # ME THEN [ret |-> FALSE, called |-> FALSE]
    ELSE [ret |-> TRUE, called |-> TRUE]

\* delete_repost_record; remote_ok is the outcome of the delete_record call.
\* ret is the returned value, called tells whether the remote call was made
delete_repost_record(repost_uri, remote_ok) ==
    IF repost_uri = NoneUri \/ ~StartsWithAt(repost_uri)
    THEN [ret |-> FALSE, called |-> FALSE]
    ELSE IF Len(repost_uri) < 5 THEN [ret |-> FALSE, called |-> FALSE]
    ELSE IF repost_uri[3] # ME THEN [ret |-> FALSE, called |-> FALSE]
    ELSE [ret |-> remote_ok, called |-> TRUE]

RetentionCutoff(now) == now - 24 * CLEANUP_DAYS

\* the entry's age test of cleanup_old_reposts: TRUE when the entry is kept
\* without a delete attempt
RecentEnough(item, now) ==
    LET parsed == parse_dt(item.createdAt)
        created_dt == IF parsed.ok THEN parsed ELSE now_dt(now)
    IN  created_dt.t >= RetentionCutoff(now)

\* cleanup_old_reposts over reposts[k..]; fails is the set of positions whose
\* remote delete call raises. keep and removed are the function's keep and
\* removed; deleted collects the records the server deleted
RECURSIVE CleanupLoop(_, _, _, _, _)
CleanupLoop(reposts, now, fails, k, acc) ==
    IF k > Len(reposts) THEN acc
    ELSE LET item == reposts[k]
             d == delete_repost_record(item.repost_uri, k \notin fails)
         IN  IF RecentEnough(item, now)
             THEN CleanupLoop(reposts, now, fails, k + 1,
                              [acc EXCEPT !.keep = Append(@, item)])
             ELSE LET served == IF item.repost_uri # NoneUri /\ d.called /\ k \notin fails
                                THEN {item.repost_uri} ELSE {}
                  IN  IF item.repost_uri # NoneUri /\ d.ret
                      THEN CleanupLoop(reposts, now, fails, k + 1,
                                       [acc EXCEPT !.removed = @ + 1,
                                                   !.deleted = @ \cup served])
                      ELSE CleanupLoop(reposts, now, fails, k + 1,
                                       [acc EXCEPT !.keep = Append(@, item),
                                                   !.deleted = @ \cup served])

cleanup_old_reposts(reposts, now, fails) ==
    CleanupLoop(reposts, now, fails, 1,
                [keep |-> << >>, removed |-> 0, deleted |-> {}])

\* ------------------------------ ANTI-DUP SAFETY ---------------------------
\* an item of the account's own author feed: the post uri ("" when absent)
\* and the viewer flags (has_viewer FALSE when the post has no viewer)
OwnItem(uri, has_viewer, repost, like) ==
    [uri |-> uri, has_viewer |-> has_viewer, repost |-> repost, like |-> like]

\* build_viewer_sets_from_own_feed; ok is FALSE when get_author_feed raises
build_viewer_sets_from_own_feed(feed, ok) ==
    IF ~ok THEN [reposted |-> {}, liked |-> {}]
    ELSE LET seen == { feed[k] : k \in { j \in 1..Len(feed) :
                                         feed[j].uri # "" /\ feed[j].has_viewer } }
         IN  [reposted |-> { it.uri : it \in { x \in seen : x.repost } },
              liked |-> { it.uri : it \in { x \in seen : x.like } }]

OwnFeeds ==
    { << >>,
      << OwnItem("u1", TRUE, TRUE, FALSE), OwnItem("u2", TRUE, FALSE, TRUE),
         OwnItem("u3", FALSE, TRUE, TRUE), OwnItem("", TRUE, TRUE, TRUE) >> }

\* the scans of the own feed: the feed and whether get_author_feed answers
OwnScans == (OwnFeeds \X {TRUE}) \cup ((OwnFeeds \ { << >> }) \X {FALSE})

\* list(dict.fromkeys(xs)): the first occurrence of each element, in order
RECURSIVE Dedupe(_, _)
Dedupe(xs, acc) ==
    IF xs = << >> THEN acc
    ELSE IF Head(xs) \in Range(acc) THEN Dedupe(Tail(xs), acc)
    ELSE Dedupe(Tail(xs), Append(acc, Head(xs)))

\* list(a_set): the elements in an order the program does not control
RECURSIVE Orders(_)
Orders(S) ==
    IF S = {} THEN { << >> }
    ELSE UNION { { << x >> \o rest : rest \in Orders(S \ {x}) } : x \in S }

\* update_seen_cache for one cache: order is the iteration order of the set
SeenCache(order, seen) == Take(Dedupe(order \o seen, << >>), DUP_CHECK_CACHE)

\* the values update_seen_cache can give a cache
SeenCaches(S, seen) == { SeenCache(order, seen) : order \in Orders(S) }

\* ------------------------------ REPOST + LIKE -----------------------------
\* line 296: cutoff, for a lookback of hours_back hours
CutoffWith(now, hours_back) == now - hours_back

\* the cutoff one hour too early
RepostCutoff_Early(now) == now - HOURS_BACK - 1

\* line 296: cutoff
RepostCutoff(now) == CutoffWith(now, HOURS_BACK)

\* the candidate loop of do_reposts over the items from position k.
\* A candidate is (p_time, uri, cid); post is the feed post it was made from.
\* crashed: the comparison of p_time with the cutoff raised.
RECURSIVE BuildLoopFrom(_, _, _, _, _, _, _)
BuildLoopFrom(items, k, exclude, reposted, now, cutoff, cands) ==
    IF k > Len(items) THEN [crashed |-> FALSE, cands |-> cands]
    ELSE LET post == items[k]
             p_time == robust_post_time(post)
             skip == BuildLoopFrom(items, k + 1, exclude, reposted, now, cutoff, cands)
         IN  IF ~post.has_post THEN skip
             ELSE IF post.uri = "" \/ post.cid = "" \/ post.author = ""
                     \/ ~post.record.present THEN skip
             ELSE IF post.author \in exclude THEN skip
             ELSE IF post.uri \in reposted THEN skip
             ELSE IF ~Comparable(p_time, now_dt(now))
                  THEN [crashed |-> TRUE, cands |-> cands]
             ELSE IF p_time.t < cutoff THEN skip
             ELSE IF ~has_media(post.record) THEN skip
             ELSE BuildLoopFrom(items, k + 1, exclude, reposted, now, cutoff,
                                Append(cands, [p_time |-> p_time.t, uri |-> post.uri,
                                               cid |-> post.cid, post |-> post]))

\* the candidate loop with the cutoff of the configured HOURS_BACK
BuildLoop(items, k, exclude, reposted, now, cands) ==
    BuildLoopFrom(items, k, exclude, reposted, now, RepostCutoff(now), cands)

\* an insertion that leaves the candidates in fetch order
InsertByTime_Unsorted(sorted, c) == Append(sorted, c)

\* an insertion that puts a candidate before those of the same time
RECURSIVE InsertByTime_Unstable(_, _)
InsertByTime_Unstable(sorted, c) ==
    IF sorted = << >> THEN << c >>
    ELSE IF sorted[Len(sorted)].p_time < c.p_time THEN Append(sorted, c)
    ELSE Append(InsertByTime_Unstable(SubSeq(sorted, 1, Len(sorted) - 1), c),
                sorted[Len(sorted)])

\* list.sort(key = p_time): a stable sort, here by insertion
RECURSIVE InsertByTime(_, _)
InsertByTime(sorted, c) ==
    IF sorted = << >> THEN << c >>
    ELSE IF sorted[Len(sorted)].p_time <= c.p_time THEN Append(sorted, c)
    ELSE Append(InsertByTime(SubSeq(sorted, 1, Len(sorted) - 1), c),
                sorted[Len(sorted)])

RECURSIVE SortByTime(_, _)
SortByTime(cands, k) ==
    IF k = 0 THEN << >>
    ELSE InsertByTime(SortByTime(cands, k - 1), cands[k])

\* lines 311-341 of do_reposts
BuildCandidates(items, exclude, reposted, now) ==
    LET b == BuildLoop(items, 1, exclude, reposted, now, << >>)
    IN  [crashed |-> b.crashed,
         cands |-> IF b.crashed THEN << >> ELSE SortByTime(b.cands, Len(b.cands))]

\* lines 296 and 311-341 of do_reposts for a lookback of hours_back hours
BuildCandidatesWith(items, exclude, reposted, now, hours_back) ==
    LET b == BuildLoopFrom(items, 1, exclude, reposted, now,
                           CutoffWith(now, hours_back), << >>)
    IN  [crashed |-> b.crashed,
         cands |-> IF b.crashed THEN << >> ELSE SortByTime(b.cands, Len(b.cands))]

\* ------------------------------ state -------------------------------------
EmptyState == [reposts |-> << >>, seen_reposted |-> << >>, seen_liked |-> << >>]

OwnUri(rkey) == AtUri(ME, REPOST_COLL, rkey)
Expired == Aware(Now0 - 24 * CLEANUP_DAYS - 1)

OwnOld == Entry("u1", "c1", OwnUri("r1"), Expired)
OwnNew == Entry("u2", "c2", OwnUri("r2"), Aware(Now0 - 1))
OtherOld == Entry("u3", "c3", AtUri("did:other", REPOST_COLL, "r3"), Expired)
BadTime == Entry("u6", "c6", OwnUri("r6"), BadTs)
NoUriOld == Entry("u1", "c1", NoneUri, Expired)
ShortOld == Entry("u2", "c2", <<"at:", "", ME>>, Expired)

\* the contents of the state file when the run starts (EmptyState: no file)
InitStates ==
    { EmptyState,
      [reposts |-> << OwnOld, OwnNew >>, seen_reposted |-> <<"u2", "u1">>,
       seen_liked |-> <<"u1">>],
      [reposts |-> << OtherOld, BadTime >>, seen_reposted |-> << >>,
       seen_liked |-> <<"u3">>],
      [reposts |-> << NoUriOld, ShortOld >>, seen_reposted |-> <<"u3">>,
       seen_liked |-> << >>] }

\* the record keys the server gives to the reposts of one run
RKeys == <<"k1", "k2", "k3", "k4", "k5">>

VARIABLES
    pc,                 \* the position of main()
    exit,               \* why main() returned early ("" otherwise)
    disk,               \* the contents of STATE_FILE
    state,              \* main's state dictionary
    exclude_authors,    \* main's exclude_authors
    removed,            \* the value returned by cleanup_old_reposts
    deleted,            \* the repost records deleted on the server in this run
    feed_items,         \* do_reposts: the fetched items
    already_reposted,   \* do_reposts: already_reposted
    already_liked,      \* do_reposts: already_liked
    candidates,         \* do_reposts: the sorted candidates
    made,               \* do_reposts: made
    own_feed,           \* the account's author feed on the server, as of the scan
    scan_ok,            \* whether get_author_feed answered the scan
    log,                \* the outcome of each candidate processed so far
    failed_call,        \* the remote call whose failure ended the run ("" if none)
    tmp_file,           \* save_state: the contents of STATE_FILE + ".tmp"
    clock,              \* the clock (now_dt), in hours
    got_items,          \* fetch_feed_items: items
    page_cursor,        \* fetch_feed_items, fetch_list_members: cursor is set
    page_batch,         \* the batch of the last response of the paged source
    calls,              \* the number of calls made to the paged source
    req_limit,          \* fetch_feed_items: the largest limit requested so far
    fetch_max,          \* fetch_feed_items: max_items
    listed,             \* fetch_list_members: members
    list_limit,         \* fetch_list_members: limit
    del_args,           \* delete_repost_record: the argument and the remote outcome
    del_out             \* delete_repost_record: the result and whether it called

vars == <<pc, exit, disk, state, exclude_authors, removed, deleted, feed_items,
          already_reposted, already_liked, candidates, made, own_feed, scan_ok, log,
          failed_call, tmp_file, clock, got_items, page_cursor, page_batch, calls,
          req_limit, fetch_max, listed, list_limit, del_args, del_out>>

\* the locals of the paged fetches and of delete_repost_record, which the
\* steps of main() below leave alone
paging == <<got_items, page_cursor, page_batch, calls, req_limit, fetch_max, listed,
            list_limit>>
deletion == <<del_args, del_out>>

\* STATE_FILE + ".tmp": absent, partly written, or written in full
NoFile == [written |-> "none", data |-> EmptyState]

\* the values of the locals before their function is called
IdlePaging ==
    /\ got_items = << >>
    /\ page_cursor = FALSE
    /\ page_batch = << >>
    /\ calls = 0
    /\ req_limit = 0
    /\ fetch_max = 0
    /\ listed = << >>
    /\ list_limit = 0

IdleDeletion ==
    /\ del_args = [repost_uri |-> NoneUri, remote_ok |-> TRUE]
    /\ del_out = [ret |-> FALSE, called |-> FALSE]

\* main() before its first statement, but for pc and the state file
IdleRun ==
    /\ exit = ""
    /\ state = EmptyState
    /\ exclude_authors = {}
    /\ removed = 0
    /\ deleted = {}
    /\ feed_items = << >>
    /\ already_reposted = {}
    /\ already_liked = {}
    /\ candidates = << >>
    /\ made = 0
    /\ own_feed = << >>
    /\ scan_ok = TRUE
    /\ log = << >>
    /\ failed_call = ""
    /\ tmp_file = NoFile

Init ==
    /\ pc = "start"
    /\ disk \in InitStates
    /\ IdleRun
    /\ clock = Now0
    /\ IdlePaging
    /\ IdleDeletion

\* ------------------------------ MAIN --------------------------------------
\* lines 390-398: credentials check, login, load_state
Main_Login ==
    /\ pc = "start"
    /\ \E creds \in BOOLEAN, login_ok \in BOOLEAN :
          /\ pc' = IF ~creds THEN "returned" ELSE IF ~login_ok THEN "crashed" ELSE "exclude"
          /\ exit' = IF ~creds THEN "credentials" ELSE ""
          /\ state' = IF creds /\ login_ok THEN disk ELSE state
          /\ failed_call' = IF creds /\ ~login_ok THEN "login" ELSE ""
    /\ UNCHANGED <<disk, exclude_authors, removed, deleted, feed_items,
                   already_reposted, already_liked, candidates, made, own_feed, scan_ok, log>>
    /\ UNCHANGED <<tmp_file, clock, paging, deletion>>

\* lines 400-410: the exclude list
Main_LoadExclude ==
    /\ pc = "exclude"
    /\ \E link \in ListLinks, lookup \in Lookups, src \in ListSources, fetch_ok \in BOOLEAN :
          LET ex_uri == normalize_list_uri(link, lookup)
          IN  IF link = NoneUri
              THEN /\ pc' = "cleanup" /\ exit' = "" /\ exclude_authors' = {}
                   /\ failed_call' = ""
              ELSE IF ex_uri = NoneUri
              THEN /\ pc' = "returned" /\ exit' = "exclude_link" /\ exclude_authors' = {}
                   /\ failed_call' = IF LookupFailed(link, "lists", lookup)
                                     THEN "resolve_handle" ELSE ""
              ELSE IF ~fetch_ok
              THEN /\ pc' = "crashed" /\ exit' = "" /\ exclude_authors' = {}
                   /\ failed_call' = "get_list"
              ELSE /\ pc' = "cleanup" /\ exit' = ""
                   /\ exclude_authors' = Range(fetch_list_members(src, LIST_MEMBER_LIMIT))
                   /\ failed_call' = ""
    /\ UNCHANGED <<disk, state, removed, deleted, feed_items,
                   already_reposted, already_liked, candidates, made, own_feed, scan_ok, log>>
    /\ UNCHANGED <<tmp_file, clock, paging, deletion>>

\* lines 412-413: cleanup_old_reposts(client, state)
Main_Cleanup ==
    /\ pc = "cleanup"
    /\ \E fails \in SUBSET (1..Len(state.reposts)) :
          LET r == cleanup_old_reposts(state.reposts, Now0, fails)
          IN  /\ state' = [state EXCEPT !.reposts = r.keep]
              /\ removed' = r.removed
              /\ deleted' = r.deleted
    /\ pc' = "feed"
    /\ UNCHANGED <<exit, disk, exclude_authors, feed_items,
                   already_reposted, already_liked, candidates, made, own_feed, scan_ok, log>>
    /\ UNCHANGED <<failed_call, tmp_file, clock, paging, deletion>>

\* lines 415-419: the feed link
Main_NormalizeFeed ==
    /\ pc = "feed"
    /\ \E link \in FeedLinks, lookup \in Lookups :
          LET feed_uri == normalize_feed_uri(link, lookup)
          IN  /\ pc' = IF feed_uri = NoneUri THEN "returned" ELSE "build"
              /\ exit' = IF feed_uri = NoneUri THEN "feed_link" ELSE ""
              /\ failed_call' = IF feed_uri = NoneUri /\ LookupFailed(link, "feed", lookup)
                                THEN "resolve_handle" ELSE ""
    /\ UNCHANGED <<disk, state, exclude_authors, removed, deleted, feed_items,
                   already_reposted, already_liked, candidates, made, own_feed, scan_ok, log>>
    /\ UNCHANGED <<tmp_file, clock, paging, deletion>>

\* ------------------------------ do_reposts --------------------------------
\* line 299 with the entry's post_cid taken for its post_uri
known_state_WrongKey(reposts) ==
    { reposts[k].post_cid : k \in { j \in 1..Len(reposts) : reposts[j].post_cid # "" } }

\* line 299
known_state(reposts) ==
    { reposts[k].post_uri : k \in { j \in 1..Len(reposts) : reposts[j].post_uri # "" } }

\* lines 296-341: the dedup sets, the feed fetch, the candidates and their
\* sort
DoReposts_Build ==
    /\ pc = "build"
    /\ \E scan \in OwnScans :
          LET api == build_viewer_sets_from_own_feed(scan[1], scan[2])
              reposted == api.reposted \cup Range(state.seen_reposted)
                          \cup known_state(state.reposts)
              liked == api.liked \cup Range(state.seen_liked)
          IN  /\ own_feed' = scan[1]
              /\ scan_ok' = scan[2]
              /\ already_reposted' = reposted
              /\ already_liked' = liked
              /\ \/ \E src \in FeedSources :
                       LET items == fetch_feed_items(src, FEED_MAX_ITEMS)
                           b == BuildCandidates(items, exclude_authors, reposted, Now0)
                       IN  /\ feed_items' = items
                           /\ candidates' = b.cands
                           /\ pc' = IF b.crashed THEN "crashed" ELSE "loop"
                           /\ failed_call' = ""
                 \/ \* get_feed raises
                    /\ feed_items' = << >>
                    /\ candidates' = << >>
                    /\ pc' = "crashed"
                    /\ failed_call' = "get_feed"
    /\ UNCHANGED <<exit, disk, state, exclude_authors, removed, deleted, made, log>>
    /\ UNCHANGED <<tmp_file, clock, paging, deletion>>

\* the uris whose repost record was created on the server in this run
Created == { candidates[k].uri : k \in { j \in 1..Len(log) : log[j] # "repost_failed" } }

NumCreated == Cardinality({ j \in 1..Len(log) : log[j] # "repost_failed" })

\* the action loop with a failing create call ending the run
DoReposts_Attempt_Aborts ==
    /\ pc = "loop"
    /\ Len(log) < Len(candidates)
    /\ made < MAX_PER_RUN
    /\ LET c == candidates[Len(log) + 1]
           entry == Entry(c.uri, c.cid, OwnUri(RKeys[NumCreated + 1]), now_iso(Now0))
       IN  \/ /\ log' = Append(log, "repost_failed")
              /\ pc' = "crashed"
              /\ UNCHANGED <<state, already_reposted, already_liked, made>>
           \/ /\ c.uri \notin already_liked
              /\ log' = Append(log, "like_failed")
              /\ pc' = "crashed"
              /\ UNCHANGED <<state, already_reposted, already_liked, made>>
           \/ /\ log' = Append(log, "reposted")
              /\ pc' = pc
              /\ already_liked' = already_liked \cup {c.uri}
              /\ state' = [state EXCEPT !.reposts = Append(@, entry)]
              /\ already_reposted' = already_reposted \cup {c.uri}
              /\ made' = made + 1
    /\ feed_items' = << >>
    /\ UNCHANGED <<exit, disk, exclude_authors, removed, deleted, candidates, own_feed, scan_ok>>
    /\ UNCHANGED <<failed_call, tmp_file, clock, paging, deletion>>

\* lines 344-380: one iteration of the action loop, for candidates[Len(log)+1].
\* repost_ok / like_ok: whether the repost and the like create calls answer
DoReposts_Attempt ==
    /\ pc = "loop"
    /\ Len(log) < Len(candidates)
    /\ made < MAX_PER_RUN
    /\ LET c == candidates[Len(log) + 1]
           ts == now_iso(Now0)
           repost_uri == OwnUri(RKeys[NumCreated + 1])
           entry == Entry(c.uri, c.cid, repost_uri, ts)
       IN  \/ \* repost.create raises
              /\ log' = Append(log, "repost_failed")
              /\ UNCHANGED <<state, already_reposted, already_liked, made>>
           \/ \* like.create raises
              /\ c.uri \notin already_liked
              /\ log' = Append(log, "like_failed")
              /\ UNCHANGED <<state, already_reposted, already_liked, made>>
           \/ \* no call raises
              /\ log' = Append(log, "reposted")
              /\ already_liked' = already_liked \cup {c.uri}
              /\ state' = [state EXCEPT !.reposts = Append(@, entry)]
              /\ already_reposted' = already_reposted \cup {c.uri}
              /\ made' = made + 1
    /\ feed_items' = << >>
    /\ UNCHANGED <<pc, exit, disk, exclude_authors, removed, deleted, candidates, own_feed, scan_ok>>
    /\ UNCHANGED <<failed_call, tmp_file, clock, paging, deletion>>

\* lines 345-346 and 382-385: the loop ends, update_seen_cache, return made
DoReposts_Finish ==
    /\ pc = "loop"
    /\ Len(log) = Len(candidates) \/ made >= MAX_PER_RUN
    /\ \E sr \in SeenCaches(already_reposted, state.seen_reposted),
          sl \in SeenCaches(already_liked, state.seen_liked) :
          state' = [state EXCEPT !.seen_reposted = sr, !.seen_liked = sl]
    /\ pc' = "save"
    /\ feed_items' = << >>
    /\ UNCHANGED <<exit, disk, exclude_authors, removed, deleted, already_reposted,
                   already_liked, candidates, made, own_feed, scan_ok, log>>
    /\ UNCHANGED <<failed_call, tmp_file, clock, paging, deletion>>

\* line 424: save_state(STATE_FILE, state)
Main_Save ==
    /\ pc = "save"
    /\ disk' = state
    /\ pc' = "done"
    /\ UNCHANGED <<exit, state, exclude_authors, removed, deleted, feed_items,
                   already_reposted, already_liked, candidates, made, own_feed, scan_ok, log>>
    /\ UNCHANGED <<failed_call, tmp_file, clock, paging, deletion>>

Next ==
    \/ Main_Login
    \/ Main_LoadExclude
    \/ Main_Cleanup
    \/ Main_NormalizeFeed
    \/ DoReposts_Build
    \/ DoReposts_Attempt
    \/ DoReposts_Finish
    \/ Main_Save

Spec == Init /\ [][Next]_vars

\* ========================== properties ====================================
\* the positions of the candidates whose repost record exists on the server
CreatedAt == { j \in 1..Len(log) : log[j] # "repost_failed" }

\* the positions of the candidates that were reposted, liked and recorded
ActedAt == { j \in 1..Len(log) : log[j] = "reposted" }

\* the entries of state['reposts'] when do_reposts was called
RepostsAtCall == SubSeq(state.reposts, 1, Len(state.reposts) - made)

\* C1: every entry of state['reposts'] has a unique post_uri, in every state
\* of a run that starts from a history with pairwise distinct post_uri
C1_UniquePostUri ==
    \A i, j \in 1..Len(state.reposts) :
        i # j => state.reposts[i].post_uri # state.reposts[j].post_uri

\* the uris the account's own feed flags as reposted on the server
FlaggedReposted ==
    { own_feed[k].uri : k \in { j \in 1..Len(own_feed) :
          own_feed[j].uri # "" /\ own_feed[j].has_viewer /\ own_feed[j].repost } }

\* the uris the scan of the own feed returned as reposted
ScannedReposted == IF scan_ok THEN FlaggedReposted ELSE {}

\* the post uris of the entries state['reposts'] held when do_reposts was called
KnownAtCall == { RepostsAtCall[k].post_uri : k \in 1..Len(RepostsAtCall) }

C3_RepostedPostsPassFilters ==
    \A k \in 1..Len(log) :
        LET c == candidates[k]
            post == c.post
        IN  /\ post.has_post
            /\ c.uri = post.uri /\ c.cid = post.cid
            /\ post.uri # "" /\ post.cid # "" /\ post.author # "" /\ post.record.present
            /\ post.author \notin exclude_authors
            /\ robust_post_time(post).t >= Now0 - HOURS_BACK
            /\ c.p_time = robust_post_time(post).t
            /\ has_media(post.record)

\* C3 witness: a repost was issued in a run with a non-empty exclusion set,
\* for a post dated exactly at the cutoff
C3_Witness ==
    /\ pc = "loop" /\ exclude_authors # {}
    /\ \E k \in 1..Len(log) :
          /\ log[k] = "reposted"
          /\ candidates[k].p_time = Now0 - HOURS_BACK

\* the run made no failing repost or like call
NoFailure == \A k \in 1..Len(log) : log[k] = "reposted"

LoopEnded == pc \in {"save", "done"}

\* C4: without a failing call a run with N candidates commits exactly
\* min(MAX_PER_RUN, N) reposts, and no candidate left out is older than a
\* candidate acted on
C4_BudgetOldestFirst ==
    (LoopEnded /\ NoFailure) =>
        /\ made = Min(MAX_PER_RUN, Len(candidates))
        /\ Len(log) = made
        /\ \A k \in 1..made :
              state.reposts[Len(state.reposts) - made + k].post_uri = candidates[k].uri
        /\ \A i \in 1..Len(log), j \in (Len(log) + 1)..Len(candidates) :
              candidates[i].p_time <= candidates[j].p_time

\* C4 witness: three candidates of different times, the budget of two spent
\* on the two oldest
C4_Witness ==
    /\ LoopEnded /\ NoFailure
    /\ Len(candidates) = 3 /\ made = 2 /\ MAX_PER_RUN = 2
    /\ candidates[2].p_time < candidates[3].p_time

\* C5: in one run at most one post of any single author is reposted (the
\* per-author cap of the spec's example, 1), whatever the budget allows
C5_PerAuthorCap ==
    \A a \in { candidates[k].post.author : k \in 1..Len(candidates) } :
        Cardinality({ k \in ActedAt : candidates[k].post.author = a }) <= 1

\* C6: the candidate sequence holds each uri at most once, and no uri is
\* reposted twice in one run
C6_NoUriTwice ==
    /\ \A i, j \in 1..Len(candidates) :
          i # j => candidates[i].uri # candidates[j].uri
    /\ \A i, j \in CreatedAt :
          i # j => candidates[i].uri # candidates[j].uri

\* an entry older than the retention window
IsExpired(e) == e.createdAt.kind = "aware" /\ e.createdAt.t < Now0 - 24 * CLEANUP_DAYS

\* cleanup_old_reposts has run and the state file still holds what was loaded
CleanupDone == pc \in {"feed", "build", "loop", "save"}

RECURSIVE Without(_, _)
Without(entries, uris) ==
    IF entries = << >> THEN << >>
    ELSE IF Head(entries).repost_uri \in uris THEN Without(Tail(entries), uris)
    ELSE << Head(entries) >> \o Without(Tail(entries), uris)

\* C7: cleanup_old_reposts drops an entry only when it is expired and the
\* server deleted its repost record; every other entry, an expired one whose
\* delete failed included, stays in state['reposts'] in its place, is not
\* counted in removed, and is written to the state file by save_state
C7_FailedRetractionKept ==
    /\ [](CleanupDone =>
            /\ RepostsAtCall = Without(disk.reposts, deleted)
            /\ removed = Len(disk.reposts) - Len(RepostsAtCall)
            /\ \A k \in 1..Len(disk.reposts) :
                  disk.reposts[k].repost_uri \in deleted => IsExpired(disk.reposts[k]))
    /\ [][pc = "save" => disk' = state]_vars

\* C7 witness: after the run the state file still holds an expired entry
\* with a repost record of the account, whose delete failed
C7_Witness ==
    /\ pc = "done" /\ removed = 0 /\ deleted = {}
    /\ \E k \in 1..Len(disk.reposts) :
          /\ IsExpired(disk.reposts[k])
          /\ Len(disk.reposts[k].repost_uri) = 5
          /\ disk.reposts[k].repost_uri[3] = ME

\* the derived timestamp of a post: createdAt, else indexedAt, else the epoch
DerivedTime(post) ==
    IF post.record.present /\ post.record.createdAt.kind \in {"aware", "naive"}
    THEN post.record.createdAt.t
    ELSE IF post.indexedAt.kind \in {"aware", "naive"} THEN post.indexedAt.t
    ELSE 0

RECURSIVE AtTime(_, _)
AtTime(cands, t) ==
    IF cands = << >> THEN << >>
    ELSE IF Head(cands).p_time = t THEN << Head(cands) >> \o AtTime(Tail(cands), t)
    ELSE AtTime(Tail(cands), t)

\* C8: the candidates are in non-decreasing order of derived timestamp, and
\* the candidates of one timestamp are in the order they were fetched
C8_SortedStable ==
    (pc = "loop" /\ log = << >>) =>
        LET fetched == BuildLoop(feed_items, 1, exclude_authors, already_reposted,
                                 Now0, << >>).cands
        IN  /\ \A i, j \in 1..Len(candidates) :
                  i < j => candidates[i].p_time <= candidates[j].p_time
            /\ \A k \in 1..Len(candidates) :
                  candidates[k].p_time = DerivedTime(candidates[k].post)
            /\ Len(candidates) = Len(fetched)
            /\ \A t \in { fetched[k].p_time : k \in 1..Len(fetched) } :
                  AtTime(candidates, t) = AtTime(fetched, t)

\* C8 witness: two different candidates of one timestamp, fetched before an
\* older one
C8_Witness ==
    /\ pc = "loop" /\ log = << >> /\ Len(feed_items) = 3 /\ Len(candidates) = 3
    /\ candidates[1].uri = feed_items[3].uri
    /\ candidates[2].p_time = candidates[3].p_time
    /\ candidates[2].uri # candidates[3].uri
    /\ candidates[2].post.record.createdAt.kind = "bad"

\* C9: a failing repost or like call leaves the run in the loop, adds no
\* entry and spends no budget; the loop goes on until every candidate was
\* attempted or the budget is spent; the run then saves the state
C9_FailureDoesNotAbort ==
    /\ [][(pc = "loop" /\ Len(log') > Len(log) /\ log'[Len(log')] # "reposted")
            => (pc' = "loop" /\ state' = state /\ made' = made)]_vars
    /\ [][pc = "loop" => \/ pc' = "loop" /\ Len(log') = Len(log) + 1
                         \/ pc' = "save" /\ log' = log]_vars
    /\ [][pc = "save" => (pc' = "done" /\ disk' = state)]_vars
    /\ [](pc \in {"loop", "save"} => ENABLED Next)
    /\ [](LoopEnded => (Len(log) = Len(candidates) \/ made >= MAX_PER_RUN))

\* C9 witness: a run saved its state after a failed repost call and a failed
\* like call, each followed by a successful repost
C9_Witness ==
    /\ pc = "done" /\ disk = state /\ Len(log) = 3 /\ made = 1
    /\ log[1] = "repost_failed" /\ log[2] = "like_failed" /\ log[3] = "reposted"

\* C10: when main returns for a configuration error no repost record has
\* been deleted or created and the run state is as loaded
C10_ConfigErrorBeforeMutation ==
    pc = "returned" =>
        /\ deleted = {}
        /\ Created = {}
        /\ state = IF exit = "credentials" THEN EmptyState ELSE disk

\* C11: once the login succeeded, the failure of a remote call never ends the
\* run: a run that stopped before save_state did not stop because a remote
\* call failed
C11_RemoteFailureNeverAborts ==
    pc \in {"crashed", "returned"} => failed_call \in {"", "login"}

\* ====================== fetch_feed_items, call by call ====================
\* the values of max_items the fetch is called with
FetchMaxChoices == {0, 1, FEED_MAX_ITEMS, API_PAGE_LIMIT + 2}

\* a batch of n items
Batch(n) == [k \in 1..n |-> Fresh1]

\* what the source may answer to a request with limit lim: no item, one item,
\* lim items or lim + 1 items, each with or without a cursor
FeedResponses(lim) ==
    { [feed |-> Batch(n), cursor |-> c] : n \in {0, 1, lim, lim + 1}, c \in BOOLEAN }

\* lines 182-184
FetchInit ==
    /\ pc = "fetching"
    /\ disk = EmptyState
    /\ IdleRun
    /\ clock = Now0
    /\ IdleDeletion
    /\ got_items = << >>
    /\ page_cursor = FALSE
    /\ page_batch = << >>
    /\ calls = 0
    /\ req_limit = 0
    /\ fetch_max \in FetchMaxChoices
    /\ listed = << >>
    /\ list_limit = 0

\* lines 186-201: one iteration of the while loop
Fetch_Call ==
    /\ pc = "fetching"
    /\ Len(got_items) < fetch_max
    /\ LET batch_limit == BatchLimit(fetch_max, Len(got_items))
       IN  IF batch_limit <= 0
           THEN /\ pc' = "fetch_return"
                /\ UNCHANGED <<got_items, page_cursor, page_batch, calls, req_limit>>
           ELSE \E out \in FeedResponses(batch_limit) :
                   /\ got_items' = got_items \o out.feed
                   /\ page_cursor' = out.cursor
                   /\ page_batch' = out.feed
                   /\ calls' = calls + 1
                   /\ req_limit' = IF batch_limit > req_limit THEN batch_limit ELSE req_limit
                   /\ pc' = IF ~out.cursor \/ out.feed = << >>
                            THEN "fetch_return" ELSE "fetching"
    /\ UNCHANGED <<exit, disk, state, exclude_authors, removed, deleted, feed_items,
                   already_reposted, already_liked, candidates, made, own_feed, scan_ok, log>>
    /\ UNCHANGED <<failed_call, tmp_file, clock, fetch_max, listed, list_limit, deletion>>

\* lines 186 and 203: the loop is left, return items[:max_items]
Fetch_Return ==
    /\ pc = "fetch_return" \/ (pc = "fetching" /\ Len(got_items) >= fetch_max)
    /\ got_items' = Take(got_items, fetch_max)
    /\ pc' = "fetched"
    /\ UNCHANGED <<exit, disk, state, exclude_authors, removed, deleted, feed_items,
                   already_reposted, already_liked, candidates, made, own_feed, scan_ok, log>>
    /\ UNCHANGED <<failed_call, tmp_file, clock, page_cursor, page_batch, calls, req_limit,
                   fetch_max, listed, list_limit, deletion>>

FetchNext ==
    \/ Fetch_Call
    \/ Fetch_Return

\* the interpreter runs the function's next statement
FetchFair == FetchInit /\ [][FetchNext]_vars /\ WF_vars(FetchNext)

\* C12: fetch_feed_items returns, whatever the source answers: it makes no
\* call once max_items items are collected, it makes no call after a response
\* without cursor or with an empty batch, no call asks for more than 100 items,
\* and it returns at most max_items items
C12_FetchStopsAndIsBounded ==
    /\ [](req_limit <= API_PAGE_LIMIT)
    /\ [](pc = "fetched" => Len(got_items) <= fetch_max)
    /\ [][calls' # calls => Len(got_items) < fetch_max]_vars
    /\ [][calls' # calls /\ (~page_cursor' \/ page_batch' = << >>) => pc' = "fetch_return"]_vars
    /\ [][pc = "fetch_return" => calls' = calls]_vars
    /\ <>(pc = "fetched")

\* C12 witness: a fetch of more than 100 items returned exactly max_items items
\* after several calls, the source having sent more than the last call asked for
C12_Witness ==
    /\ pc = "fetched"
    /\ fetch_max > API_PAGE_LIMIT
    /\ Len(got_items) = fetch_max
    /\ calls >= 2
    /\ req_limit = API_PAGE_LIMIT
    /\ Len(page_batch) = 3

\* ====================== fetch_list_members, call by call ==================
\* the values of limit the fetch is called with
ListLimitChoices == {0, 1, LIST_MEMBER_LIMIT}

\* the bound on the number of calls of a behaviour
MaxCalls == 3

\* the subject did of a list item ("" when the item has none)
Dids == {"", "ax", "az"}

\* what the source may answer: up to two items, with or without a cursor
ListResponses ==
    { [items |-> b, cursor |-> c] : b \in SeqsUpTo(Dids, 2), c \in BOOLEAN }

\* line 113
ListInit ==
    /\ pc = "listing"
    /\ disk = EmptyState
    /\ IdleRun
    /\ clock = Now0
    /\ IdleDeletion
    /\ got_items = << >>
    /\ page_cursor = FALSE
    /\ page_batch = << >>
    /\ calls = 0
    /\ req_limit = 0
    /\ fetch_max = 0
    /\ listed = << >>
    /\ list_limit \in ListLimitChoices

\* lines 114-128: one iteration of the while loop; line 129 when it is left
List_Call ==
    /\ pc = "listing"
    /\ calls < MaxCalls
    /\ \E out \in ListResponses :
          LET r == MembersOfBatch(out.items, listed, list_limit)
          IN  /\ listed' = Take(r.members, list_limit)
              /\ page_cursor' = IF r.full THEN page_cursor ELSE out.cursor
              /\ page_batch' = out.items
              /\ pc' = IF r.full \/ ~out.cursor THEN "listed" ELSE "listing"
    /\ calls' = calls + 1
    /\ UNCHANGED <<exit, disk, state, exclude_authors, removed, deleted, feed_items,
                   already_reposted, already_liked, candidates, made, own_feed, scan_ok, log>>
    /\ UNCHANGED <<failed_call, tmp_file, clock, got_items, req_limit, fetch_max, list_limit,
                   deletion>>

ListNext == List_Call

ListSpec == ListInit /\ [][ListNext]_vars

\* C13: fetch_list_members stops paging when the source answers with an empty
\* batch, even if the response carries a cursor
C13_EmptyBatchEndsListing ==
    [][calls' # calls /\ page_batch' = << >> => pc' = "listed"]_vars

\* ====================== do_reposts with HOURS_BACK = 0 ====================
\* line 29 with HOURS_BACK set to 0 in the environment
DisabledLookback == 0

\* do_reposts is entered
LookbackInit ==
    /\ pc = "build"
    /\ disk = EmptyState
    /\ IdleRun
    /\ clock = Now0
    /\ IdlePaging
    /\ IdleDeletion

\* lines 296-341 with HOURS_BACK = 0: the fetch, the candidate loop, the sort
Lookback_Build ==
    /\ pc = "build"
    /\ \E feed \in Feeds, exclude \in {{}, {"ax"}}, reposted \in {{}, {"u1"}} :
          LET b == BuildCandidatesWith(feed, exclude, reposted, clock, DisabledLookback)
          IN  /\ feed_items' = feed
              /\ exclude_authors' = exclude
              /\ already_reposted' = reposted
              /\ candidates' = b.cands
              /\ pc' = IF b.crashed THEN "crashed" ELSE "loop"
    /\ UNCHANGED <<exit, disk, state, removed, deleted, already_liked, made, own_feed,
                   scan_ok, log>>
    /\ UNCHANGED <<failed_call, tmp_file, clock, paging, deletion>>

LookbackNext == Lookback_Build

LookbackSpec == LookbackInit /\ [][LookbackNext]_vars

\* the post passes every filter of the candidate loop but the one on its time
PassesOtherFilters(post) ==
    /\ post.has_post
    /\ post.uri # "" /\ post.cid # "" /\ post.author # ""
    /\ post.record.present
    /\ post.author \notin exclude_authors
    /\ post.uri \notin already_reposted
    /\ has_media(post.record)

\* C14: with HOURS_BACK = 0 no post is rejected for its time: every fetched
\* post that passes the other filters is a candidate, whatever its age
C14_ZeroLookbackKeepsAllAges ==
    pc = "loop" =>
        \A k \in 1..Len(feed_items) :
            PassesOtherFilters(feed_items[k]) =>
                \E j \in 1..Len(candidates) : candidates[j].uri = feed_items[k].uri

\* ====================== a run that may crash at any step ==================
\* the bound on the number of feed items of a run that may crash
CrashFeedLen == 1

\* do_reposts up to the sorted candidates, over a feed of at most
\* CrashFeedLen items
Crash_Build ==
    /\ DoReposts_Build
    /\ Len(feed_items') <= CrashFeedLen

\* save_state writing STATE_FILE in place
Save_WriteTmp_InPlace ==
    /\ pc = "save"
    /\ disk' = state
    /\ tmp_file' = [written |-> "complete", data |-> state]
    /\ pc' = "replace"
    /\ UNCHANGED <<exit, state, exclude_authors, removed, deleted, feed_items,
                   already_reposted, already_liked, candidates, made, own_feed, scan_ok, log>>
    /\ UNCHANGED <<failed_call, clock, paging, deletion>>

\* lines 72-74: save_state writes the state to STATE_FILE + ".tmp"
Save_WriteTmp ==
    /\ pc = "save"
    /\ tmp_file' = [written |-> "complete", data |-> state]
    /\ pc' = "replace"
    /\ UNCHANGED <<exit, disk, state, exclude_authors, removed, deleted, feed_items,
                   already_reposted, already_liked, candidates, made, own_feed, scan_ok, log>>
    /\ UNCHANGED <<failed_call, clock, paging, deletion>>

\* line 75: os.replace(tmp, path)
Save_Replace ==
    /\ pc = "replace"
    /\ disk' = tmp_file.data
    /\ tmp_file' = NoFile
    /\ pc' = "done"
    /\ UNCHANGED <<exit, state, exclude_authors, removed, deleted, feed_items,
                   already_reposted, already_liked, candidates, made, own_feed, scan_ok, log>>
    /\ UNCHANGED <<failed_call, clock, paging, deletion>>

\* the process dies at its current statement; inside save_state's write the
\* temp file is left as it was or partly written
Crash ==
    /\ pc \notin {"done", "returned", "crashed"}
    /\ pc' = "crashed"
    /\ tmp_file' \in IF pc = "save"
                     THEN {tmp_file, [written |-> "partial", data |-> state]}
                     ELSE {tmp_file}
    /\ UNCHANGED <<exit, disk, state, exclude_authors, removed, deleted, feed_items,
                   already_reposted, already_liked, candidates, made, own_feed, scan_ok, log>>
    /\ UNCHANGED <<failed_call, clock, paging, deletion>>

CrashNext ==
    \/ Main_Login
    \/ Main_LoadExclude
    \/ Main_Cleanup
    \/ Main_NormalizeFeed
    \/ Crash_Build
    \/ DoReposts_Attempt
    \/ DoReposts_Finish
    \/ Save_WriteTmp
    \/ Save_Replace
    \/ Crash

CrashSpec == Init /\ [][CrashNext]_vars

\* C15: STATE_FILE changes at most once in a run, by the rename that ends
\* save_state, and then to the completely written final state; until then,
\* crash or not, it holds the state it held before the run
C15_StateFileOldOrFinal ==
    /\ [][disk' # disk => (pc = "replace" /\ pc' = "done"
                           /\ tmp_file.written = "complete"
                           /\ disk' = tmp_file.data
                           /\ disk' = state)]_vars
    /\ [][(pc \in {"done", "crashed", "returned"}) => (disk' = disk)]_vars
    /\ [](pc = "done" => disk = state)

\* C15 witness: the run crashed between the write of the temp file and the
\* rename, after it reposted a post: the state file is not the final state
C15_Witness ==
    /\ pc = "crashed"
    /\ tmp_file.written = "complete"
    /\ made > 0
    /\ disk # state
    /\ tmp_file.data = state

\* the uris this run added to already_reposted: those of the posts it reposted
\* and recorded
AddedThisRun == { candidates[k].uri : k \in ActedAt }

\* C16: update_seen_cache drops the oldest entries: the uris added during the
\* run are all in the new seen_reposted, ahead of the older ones, and the
\* caches hold at most DUP_CHECK_CACHE entries
C16_CacheKeepsNewest ==
    pc = "save" =>
        /\ Len(state.seen_reposted) <= DUP_CHECK_CACHE
        /\ Len(state.seen_liked) <= DUP_CHECK_CACHE
        /\ AddedThisRun \subseteq Range(state.seen_reposted)
        /\ \A i, j \in 1..Len(state.seen_reposted) :
              (state.seen_reposted[i] \notin AddedThisRun
               /\ state.seen_reposted[j] \in AddedThisRun) => j < i

\* ====================== delete_repost_record, one call ====================
\* the parts a repost_uri is made of, and the bound on their number
UriParts == {"at:", "", ME, "did:other", REPOST_COLL, "r1"}

MaxUriLen == 5

\* the arguments of a call: the uri, split at "/", and the outcome of the
\* remote delete_record call, should it be made
DeleteArgs == [repost_uri : SeqsUpTo(UriParts, MaxUriLen), remote_ok : BOOLEAN]

DeleteInit ==
    /\ pc = "delete"
    /\ disk = EmptyState
    /\ IdleRun
    /\ clock = Now0
    /\ IdlePaging
    /\ del_args \in DeleteArgs
    /\ del_out = [ret |-> FALSE, called |-> FALSE]

\* lines 207-231
Delete_Call ==
    /\ pc = "delete"
    /\ del_out' = delete_repost_record(del_args.repost_uri, del_args.remote_ok)
    /\ pc' = "deleted"
    /\ UNCHANGED <<exit, disk, state, exclude_authors, removed, deleted, feed_items,
                   already_reposted, already_liked, candidates, made, own_feed, scan_ok, log>>
    /\ UNCHANGED <<failed_call, tmp_file, clock, paging, del_args>>

DeleteNext == Delete_Call

DeleteSpec == DeleteInit /\ [][DeleteNext]_vars

\* the uri reads at://<the account's did>/<collection>/<rkey>...
OwnedByAccount(u) ==
    /\ Len(u) >= 5
    /\ u[1] = "at:" /\ u[2] = ""
    /\ u[3] = ME

\* C17: delete_repost_record calls delete_record only for a uri owned by the
\* account; for any other uri it makes no call and returns false; a delete
\* call that fails makes it return false
C17_DeleteOnlyOwnRecords ==
    pc = "deleted" =>
        /\ del_out.called => OwnedByAccount(del_args.repost_uri)
        /\ ~OwnedByAccount(del_args.repost_uri) => ~del_out.called /\ ~del_out.ret
        /\ del_out.called /\ ~del_args.remote_ok => ~del_out.ret
        /\ del_out.ret => del_out.called /\ del_args.remote_ok

\* C17 witness: a well-formed uri of another account was refused without a
\* call
C17_Witness ==
    /\ pc = "deleted"
    /\ del_args.repost_uri = AtUri("did:other", REPOST_COLL, "r1")
    /\ del_args.remote_ok
    /\ ~del_out.called
    /\ ~del_out.ret

\* C18: every repost created on the server in the run is recorded once its
\* candidate is processed: state['reposts'] has an entry with its post_uri and
\* an own repost_uri, and the uri is in already_reposted, whether the like
\* call succeeded or not
C18_CreatedRepostRecorded ==
    \A k \in CreatedAt :
        /\ candidates[k].uri \in already_reposted
        /\ \E i \in 1..Len(state.reposts) :
              /\ state.reposts[i].post_uri = candidates[k].uri
              /\ state.reposts[i].repost_uri # NoneUri

\* the number of entries appended to state['reposts'] by do_reposts
NumAppended == Len(state.reposts) - Len(RepostsAtCall)

\* C19: whatever calls fail, the reposts created on the server in a run are
\* at most MAX_PER_RUN, as many as made and as many as the entries appended
\* to state['reposts']
C19_CreatedWithinBudget ==
    pc \in {"loop", "save", "done"} =>
        /\ NumCreated <= MAX_PER_RUN
        /\ NumCreated = made
        /\ NumCreated = NumAppended

\* ====================== cleanup across repeated runs ======================
\* the entries a state file may hold, and the bound on their number
RetentionPool == {OwnOld, OwnNew, OtherOld, BadTime, NoUriOld, ShortOld}

RetentionLen == 2

\* the bound on the days that pass
MaxDays == 2

Histories == SeqsUpTo(RetentionPool, RetentionLen)

\* the state file before the first of the runs
RetentionInit ==
    /\ pc = "done"
    /\ disk \in { [EmptyState EXCEPT !.reposts = h] : h \in Histories }
    /\ IdleRun
    /\ clock = Now0
    /\ IdlePaging
    /\ IdleDeletion

\* cleanup_old_reposts that keeps every entry
RunWith_NoCleanup(fails) ==
    /\ pc = "done"
    /\ fails \subseteq 1..Len(disk.reposts)
    /\ state' = disk
    /\ disk' = disk
    /\ removed' = 0
    /\ deleted' = {}
    /\ UNCHANGED <<pc, exit, exclude_authors, feed_items, already_reposted, already_liked,
                   candidates, made, own_feed, scan_ok, log>>
    /\ UNCHANGED <<failed_call, tmp_file, clock, paging, deletion>>

\* lines 389-425: a whole run that finds nothing to repost: load_state,
\* cleanup_old_reposts with the delete calls at the positions fails raising,
\* save_state
RunWith(fails) ==
    /\ pc = "done"
    /\ fails \subseteq 1..Len(disk.reposts)
    /\ LET r == cleanup_old_reposts(disk.reposts, clock, fails)
       IN  /\ state' = [disk EXCEPT !.reposts = r.keep]
           /\ disk' = [disk EXCEPT !.reposts = r.keep]
           /\ removed' = r.removed
           /\ deleted' = r.deleted
    /\ UNCHANGED <<pc, exit, exclude_authors, feed_items, already_reposted, already_liked,
                   candidates, made, own_feed, scan_ok, log>>
    /\ UNCHANGED <<failed_call, tmp_file, clock, paging, deletion>>

\* a run, some of its delete calls failing
Retention_Run == \E fails \in SUBSET (1..RetentionLen) : RunWith(fails)

\* a run all of whose delete calls succeed
Retention_CleanRun == RunWith({})

\* a day passes between two runs
Retention_Tick ==
    /\ pc = "done"
    /\ clock < Now0 + 24 * MaxDays
    /\ clock' = clock + 24
    /\ UNCHANGED <<pc, exit, disk, state, exclude_authors, removed, deleted, feed_items,
                   already_reposted, already_liked, candidates, made, own_feed, scan_ok, log>>
    /\ UNCHANGED <<failed_call, tmp_file, paging, deletion>>

RetentionNext ==
    \/ Retention_Run
    \/ Retention_Tick

\* the scheduler keeps starting runs, and the delete calls succeed in the end:
\* a run without a failing delete call is taken if it stays possible
RetentionFair ==
    RetentionInit /\ [][RetentionNext]_vars /\ WF_vars(Retention_CleanRun)

\* the entry is in the saved history
Saved(e) == \E i \in 1..Len(disk.reposts) : disk.reposts[i] = e

\* the entry, which the history holds since Now0 at the latest, is older than
\* the retention window: by its createdAt, or when that cannot be read by the
\* time it has been in the history
OlderThanWindow(e) ==
    IF e.createdAt.kind = "aware"
    THEN e.createdAt.t < clock - 24 * CLEANUP_DAYS
    ELSE Now0 < clock - 24 * CLEANUP_DAYS

\* C20 as stated: every saved entry older than the retention window is
\* removed from the history in the end, whatever its repost_uri and createdAt
C20_ExpiredEventuallyRemoved ==
    \A e \in RetentionPool : [](Saved(e) /\ OlderThanWindow(e) => <>(~Saved(e)))

\* C20 amended: every saved entry whose createdAt can be read and is older
\* than the retention window and whose repost_uri is a well-formed uri of the
\* account is removed from the history in the end
C20_OwnExpiredEventuallyRemoved ==
    \A e \in RetentionPool :
        [](Saved(e) /\ OlderThanWindow(e) /\ e.createdAt.kind = "aware"
           /\ OwnedByAccount(e.repost_uri) => <>(~Saved(e)))

\* C20 witness: an entry that was recent at the first run grew older than the
\* window and a later run removed it, next to an entry of another account
\* that stays
C20_Witness ==
    /\ clock > Now0
    /\ OwnUri("r2") \in deleted
    /\ removed = 1
    /\ ~Saved(OwnNew)
    /\ Saved(OtherOld)

=============================================================================
